---- MODULE Spec2Model ----
(***************************************************************************)
(* Model of scratch_ml/deep_learning/layers.py: the base Layer, the Dense  *)
(* layer and the Activation layer, driven by a caller that constructs one  *)
(* layer object and then calls its methods in any order.                   *)
(*                                                                         *)
(* Python values are records tagged by "type"; an attribute that was never *)
(* assigned is Unset (reading it raises AttributeError).  Floating point   *)
(* arrays are abstracted to integer matrices.  Every method call leaves    *)
(* its outcome (a returned value or a raised exception) in result.         *)
(***************************************************************************)
EXTENDS Integers, Sequences, FiniteSets, TLC

\* ---------------------------------------------------------------- bounds
\* The number of backward_pass calls that reach the optimizers in one behaviour
\* (each one changes the weights, so without a bound the values grow forever).
MaxBackward == 2

\* ---------------------------------------------------------- Python values
Unset == [type |-> "<unset>"]
PyNone == [type |-> "NoneType"]
PyInt(n) == [type |-> "int", val |-> n]
PyStr(s) == [type |-> "str", val |-> s]
PyBool(b) == [type |-> "bool", val |-> b]
PyTuple(t) == [type |-> "tuple", items |-> t]
Arr(d) == [type |-> "ndarray", data |-> d]
Exc(e) == [type |-> e]

IsArr(v) == v.type = "ndarray"
Rows(a) == Len(a.data)
Cols(a) == Len(a.data[1])
Shape(a) == <<Rows(a), Cols(a)>>

Return(v) == [outcome |-> "return", value |-> v]
Raise(e) == [outcome |-> "raise", value |-> Exc(e)]

\* ------------------------------------------------------------ numpy model
RECURSIVE DotSum(_, _, _, _, _)
DotSum(a, b, i, j, k) ==
    IF k = 0 THEN 0 ELSE a.data[i][k] * b.data[k][j] + DotSum(a, b, i, j, k - 1)

\* a.dot(b) for 2-D arrays with Cols(a) = Rows(b)
Dot(a, b) ==
    Arr([i \in 1..Rows(a) |-> [j \in 1..Cols(b) |-> DotSum(a, b, i, j, Cols(a))]])

\* a.T
Transpose(a) == Arr([j \in 1..Cols(a) |-> [i \in 1..Rows(a) |-> a.data[i][j]]])

RECURSIVE ColumnSum(_, _, _)
ColumnSum(a, j, i) == IF i = 0 THEN 0 ELSE a.data[i][j] + ColumnSum(a, j, i - 1)

\* np.sum(a, axis=0, keepdims=True)
SumAxis0(a) == Arr(<<[j \in 1..Cols(a) |-> ColumnSum(a, j, Rows(a))]>>)

\* m + b where b has one row and Cols(m) columns (broadcast over the rows)
AddRow(m, b) ==
    Arr([i \in 1..Rows(m) |-> [j \in 1..Cols(m) |-> m.data[i][j] + b.data[1][j]]])

\* a - b for arrays of the same shape
Minus(a, b) ==
    Arr([i \in 1..Rows(a) |-> [j \in 1..Cols(a) |-> a.data[i][j] - b.data[i][j]]])

\* np.zeros((r, c))
Zeros(r, c) == Arr([i \in 1..r |-> [j \in 1..c |-> 0]])

\* np.prod(a.shape)
Size(a) == Rows(a) * Cols(a)

\* numpy broadcasting of two 2-D shapes
Broadcastable(s, t) ==
    \A d \in 1..2 : s[d] = t[d] \/ s[d] = 1 \/ t[d] = 1

\* ----------------------------------------------------------------- inputs
Seeds == {0, 1}
Batches == {1, 2}
Dims == {1, 2}
Units == {1, 2}

\* A sample r x c array with entries in -1..1
Sample(r, c, s) ==
    Arr([i \in 1..r |-> [j \in 1..c |-> ((s + 2 * i + j) % 3) - 1]])

\* The arrays a caller passes as x
Inputs == {Sample(b, d, 0) : b \in Batches, d \in Dims}

\* The arrays a caller passes as gradient
Gradients == {Sample(b, d, 2) : b \in Batches, d \in Dims}

\* The shapes the owner of a layer passes to set_input_shape
Shapes == {PyTuple(<<d>>) : d \in Dims}

\* The values a caller passes as input_shape to Dense(n_units, input_shape):
\* the default None, an empty dimension, or a shape
InputShapes == {PyNone, PyTuple(<<0>>)} \cup Shapes

\* The names a caller passes to Activation(name)
Names == {"relu", "sigmoid", "softmax", "leaky_relu", "tanh", "not_a_real_name", "ReLU"}

\* ------------------------------------------------------------------ state
VARIABLES
    cls,              \* class of the layer object under test; "none" before construction
    layer_input,      \* self.layer_input
    input_shape,      \* self.input_shape
    n_units,          \* self.n_units
    trainable,        \* self.trainable
    w,                \* self.w
    w0,               \* self.w0
    w_opt,            \* self.w_opt
    w0_opt,           \* self.w0_opt
    activation_func,  \* self.activation_func
    optimizer,        \* the optimizer object the caller hands to initialize
    heap,             \* mutable objects that optimizer attributes refer to
    result,           \* outcome of the most recent call
    calls,            \* optimizer update calls made during the most recent call
    fwd_x,            \* argument of the most recent forward_pass call
    n_backward,       \* number of backward_pass calls that reached the optimizers
    input_dim         \* input_shape[0] as read by the latest initialize that completed

vars == <<cls, layer_input, input_shape, n_units, trainable, w, w0, w_opt, w0_opt,
          activation_func, optimizer, heap, result, calls, fwd_x, n_backward, input_dim>>

attrs == <<layer_input, input_shape, n_units, trainable, w, w0, w_opt, w0_opt,
           activation_func>>

Called(op, arg, out) == [op |-> op, arg |-> arg, outcome |-> out.outcome, value |-> out.value]

\* ------------------------------------------------------- optimizer objects
\* An optimizer object holds a step count in one of two ways: as a number bound
\* to its attribute t (update rebinds the attribute), or in a mutable container
\* its attribute refers to (update changes the container in place).
Addrs == {1}

Optimizers ==
    { [type |-> "Optimizer", id |-> 0, style |-> "rebind", t |-> 0, ref |-> 0],
      [type |-> "Optimizer", id |-> 0, style |-> "inplace", t |-> 0, ref |-> 1] }

\* The optimizer state an observer reads through instance o
Seen(o, h) ==
    IF o.type # "Optimizer" THEN -1
    ELSE IF o.style = "inplace" THEN h[o.ref] ELSE o.t

\* optimizer.update(value, grad): value - grad, one step counted
Update(o, h, value, grad) ==
    IF ~IsArr(value) THEN [out |-> Raise("TypeError"), opt |-> o, heap |-> h]
    ELSE IF Shape(value) # Shape(grad) THEN [out |-> Raise("ValueError"), opt |-> o, heap |-> h]
    ELSE IF o.style = "inplace"
         THEN [out |-> Return(Minus(value, grad)), opt |-> o,
               heap |-> [h EXCEPT ![o.ref] = @ + 1]]
         ELSE [out |-> Return(Minus(value, grad)), opt |-> [o EXCEPT !.t = @ + 1],
               heap |-> h]

\* copy.copy(o): a new object whose attributes are bound to the same values and
\* the same referenced objects as those of o
Copy(o, newid) == [o EXCEPT !.id = newid]

\* ------------------------------------------------------------------- Init
Init ==
    /\ cls = "none"
    /\ layer_input = Unset
    /\ input_shape = Unset
    /\ n_units = Unset
    /\ trainable = Unset
    /\ w = Unset
    /\ w0 = Unset
    /\ w_opt = Unset
    /\ w0_opt = Unset
    /\ activation_func = Unset
    /\ optimizer \in Optimizers
    /\ heap = [a \in Addrs |-> 0]
    /\ result = Called("none", PyNone, Return(PyNone))
    /\ calls = <<>>
    /\ fwd_x = Unset
    /\ n_backward = 0
    /\ input_dim = 0

\* ------------------------------------------------------------ class Layer
\* Layer(): the base class defines no __init__, the object has no attributes
Layer_init ==
    /\ cls = "none"
    /\ cls' = "Layer"
    /\ calls' = <<>>
    /\ result' = Called("Layer", PyNone, Return(PyNone))
    /\ UNCHANGED <<attrs, optimizer, heap, fwd_x, n_backward, input_dim>>

\* set_input_shape(shape), inherited by Dense and Activation
Layer_set_input_shape(shape) ==
    /\ cls \in {"Layer", "Dense", "Activation"}
    /\ input_shape' = shape
    /\ calls' = <<>>
    /\ result' = Called("set_input_shape", shape, Return(PyNone))
    /\ UNCHANGED <<cls, layer_input, n_units, trainable, w, w0, w_opt, w0_opt,
                   activation_func, optimizer, heap, fwd_x, n_backward, input_dim>>

\* What the base class's output_shape, forward_pass and backward_pass do
NotImplemented == Return(Exc("NotImplementedError"))

Layer_output_shape ==
    /\ cls = "Layer"
    /\ calls' = <<>>
    /\ result' = Called("output_shape", PyNone, NotImplemented)
    /\ UNCHANGED <<cls, attrs, optimizer, heap, fwd_x, n_backward, input_dim>>

\* parameters(), inherited by Activation
Layer_parameters ==
    /\ cls \in {"Layer", "Activation"}
    /\ calls' = <<>>
    /\ result' = Called("parameters", PyNone, Return(PyInt(0)))
    /\ UNCHANGED <<cls, attrs, optimizer, heap, fwd_x, n_backward, input_dim>>

Layer_forward_pass(x) ==
    /\ cls = "Layer"
    /\ calls' = <<>>
    /\ result' = Called("forward_pass", x, NotImplemented)
    /\ fwd_x' = x
    /\ UNCHANGED <<cls, attrs, optimizer, heap, n_backward, input_dim>>

Layer_backward_pass(gradient) ==
    /\ cls = "Layer"
    /\ result' = Called("backward_pass", gradient, NotImplemented)
    /\ calls' = <<>>
    /\ UNCHANGED <<cls, attrs, optimizer, heap, fwd_x, n_backward, input_dim>>

\* ------------------------------------------------------------ class Dense
\* Dense(n_units, input_shape)
Dense_init(units, shape) ==
    /\ cls = "none"
    /\ cls' = "Dense"
    /\ layer_input' = PyNone
    /\ input_shape' = shape
    /\ n_units' = PyInt(units)
    /\ trainable' = PyBool(TRUE)
    /\ w' = PyNone
    /\ w0' = PyNone
    /\ calls' = <<>>
    /\ result' = Called("Dense", PyNone, Return(PyNone))
    /\ UNCHANGED <<w_opt, w0_opt, activation_func, optimizer, heap, fwd_x,
                   n_backward, input_dim>>

\* layer.trainable = b, assigned by the owner of the layer
SetTrainable(b) ==
    /\ cls \in {"Dense", "Activation"}
    /\ trainable # PyBool(b)
    /\ trainable' = PyBool(b)
    /\ UNCHANGED <<cls, layer_input, input_shape, n_units, w, w0, w_opt, w0_opt,
                   activation_func, optimizer, heap, result, calls, fwd_x, n_backward, input_dim>>

\* Mutant: the weight matrix is drawn with its two dimensions exchanged
InitialWeights_Transposed(shape, units, seed) == Sample(units.val, shape.items[1], seed)

\* np.random.uniform(-limit, limit, (self.input_shape[0], self.n_units)): one of
\* the sample arrays of that shape
InitialWeights(shape, units, seed) == Sample(shape.items[1], units.val, seed)

\* np.zeros((1, self.n_units))
InitialBias(units) == Zeros(1, units.val)

\* initialize(optimizer)
Dense_initialize(seed) ==
    /\ cls = "Dense"
    /\ IF input_shape.type # "tuple"
       THEN /\ result' = Called("initialize", optimizer, Raise("TypeError"))
            /\ UNCHANGED <<w, w0, w_opt, w0_opt, input_dim>>
       ELSE IF input_shape.items[1] = 0
       THEN /\ result' = Called("initialize", optimizer, Raise("ZeroDivisionError"))
            /\ UNCHANGED <<w, w0, w_opt, w0_opt, input_dim>>
       ELSE /\ w' = InitialWeights(input_shape, n_units, seed)
            /\ w0' = InitialBias(n_units)
            /\ w_opt' = Copy(optimizer, 1)
            /\ w0_opt' = Copy(optimizer, 2)
            /\ input_dim' = input_shape.items[1]
            /\ result' = Called("initialize", optimizer, Return(PyNone))
    /\ calls' = <<>>
    /\ UNCHANGED <<cls, layer_input, input_shape, n_units, trainable, activation_func,
                   optimizer, heap, fwd_x, n_backward>>

\* Mutant: the bias is left out of the count
ParameterCount_NoBias(weights, bias) == Size(weights)

\* np.prod(self.w.shape) + np.prod(self.w0.shape)
ParameterCount(weights, bias) == Size(weights) + Size(bias)

Dense_parameters ==
    /\ cls = "Dense"
    /\ calls' = <<>>
    /\ result' = Called("parameters", PyNone,
                        IF IsArr(w) /\ IsArr(w0)
                        THEN Return(PyInt(ParameterCount(w, w0)))
                        ELSE Raise("AttributeError"))
    /\ UNCHANGED <<cls, attrs, optimizer, heap, fwd_x, n_backward, input_dim>>

\* x.dot(self.w) + self.w0
Affine(x, weights, bias) ==
    IF ~IsArr(weights) THEN Raise("TypeError")
    ELSE IF Cols(x) # Rows(weights) THEN Raise("ValueError")
    ELSE IF ~Broadcastable(<<Rows(x), Cols(weights)>>, Shape(bias)) THEN Raise("ValueError")
    ELSE Return(AddRow(Dot(x, weights), bias))

Dense_forward_pass(x) ==
    /\ cls = "Dense"
    /\ layer_input' = x
    /\ fwd_x' = x
    /\ calls' = <<>>
    /\ result' = Called("forward_pass", x, Affine(x, w, w0))
    /\ UNCHANGED <<cls, input_shape, n_units, trainable, w, w0, w_opt, w0_opt,
                   activation_func, optimizer, heap, n_backward, input_dim>>

Dense_output_shape ==
    /\ cls = "Dense"
    /\ calls' = <<>>
    /\ result' = Called("output_shape", PyNone, Return(PyTuple(<<n_units.val>>)))
    /\ UNCHANGED <<cls, attrs, optimizer, heap, fwd_x, n_backward, input_dim>>

\* Mutant: the flag is ignored and the update always runs
ShouldUpdate_Always(flag) == TRUE

\* if self.trainable:
ShouldUpdate(flag) == flag.val

\* grad_w = self.layer_input.T.dot(gradient)
GradW(input, gradient) == Dot(Transpose(input), gradient)

\* grad_w0 = np.sum(gradient, axis=0, keepdims=True)
GradW0(gradient) == SumAxis0(gradient)

\* Mutant: self.w is updated through w_opt
WeightUpdater_Swapped == "w_opt"

\* The optimizer attribute whose update yields the new self.w
WeightUpdater == "w0_opt"

\* The optimizer attribute whose update yields the new self.w0
BiasUpdater == "w_opt"

\* What the three optimizer objects show, for the log of update calls
SeenAll(opts, h) ==
    [w_opt |-> Seen(opts.w_opt, h), w0_opt |-> Seen(opts.w0_opt, h),
     optimizer |-> Seen(optimizer, h)]

\* One update call: the optimizer attribute it went through, its arguments, its
\* outcome, and what the optimizer objects showed before and after it
Logged(name, value, grad, u, opts, h, opts2) ==
    [opt |-> name, value |-> value, grad |-> grad, outcome |-> u.out.outcome,
     result |-> u.out.value, before |-> SeenAll(opts, h), after |-> SeenAll(opts2, u.heap)]

\* The body of "if self.trainable:": the layer's fields after it, the update calls
\* made, and the exception that ended it, if any
TrainStep(gradient) ==
    LET opts == [w_opt |-> w_opt, w0_opt |-> w0_opt]
        same == [err |-> "", w |-> w, w0 |-> w0, opts |-> opts, heap |-> heap,
                 calls |-> <<>>]
    IN  IF ~IsArr(layer_input) THEN [same EXCEPT !.err = "AttributeError"]
        ELSE IF Rows(layer_input) # Rows(gradient) THEN [same EXCEPT !.err = "ValueError"]
        ELSE IF opts[WeightUpdater] = Unset THEN [same EXCEPT !.err = "AttributeError"]
        ELSE
        LET grad_w == GradW(layer_input, gradient)
            grad_w0 == GradW0(gradient)
            u1 == Update(opts[WeightUpdater], heap, w, grad_w)
            opts1 == [opts EXCEPT ![WeightUpdater] = u1.opt]
            log1 == <<Logged(WeightUpdater, w, grad_w, u1, opts, heap, opts1)>>
        IN  IF u1.out.outcome = "raise"
            THEN [same EXCEPT !.err = u1.out.value.type, !.calls = log1]
            ELSE
            LET u2 == Update(opts1[BiasUpdater], u1.heap, w0, grad_w0)
                opts2 == [opts1 EXCEPT ![BiasUpdater] = u2.opt]
                log2 == Append(log1, Logged(BiasUpdater, w0, grad_w0, u2, opts1, u1.heap,
                                            opts2))
            IN  IF u2.out.outcome = "raise"
                THEN [err |-> u2.out.value.type, w |-> u1.out.value, w0 |-> w0,
                      opts |-> opts1, heap |-> u1.heap, calls |-> log2]
                ELSE [err |-> "", w |-> u1.out.value, w0 |-> u2.out.value,
                      opts |-> opts2, heap |-> u2.heap, calls |-> log2]

\* Mutant: the returned gradient is computed from self.w after the update
ReturnWeights_Updated(entry, updated) == updated

\* The weight matrix the returned gradient is computed from: the local w bound on
\* entry, not self.w after the update
ReturnWeights(entry, updated) == entry

\* return gradient.dot(w.T)
InputGradient(gradient, weights) ==
    IF ~IsArr(weights) THEN Raise("AttributeError")
    ELSE IF Cols(gradient) # Cols(weights) THEN Raise("ValueError")
    ELSE Return(Dot(gradient, Transpose(weights)))

Dense_backward_pass(gradient) ==
    /\ cls = "Dense"
    /\ IF ShouldUpdate(trainable)
       THEN LET step == TrainStep(gradient)
            IN  /\ step.calls # <<>> => n_backward < MaxBackward
                /\ n_backward' = n_backward + (IF step.calls # <<>> THEN 1 ELSE 0)
                /\ w' = step.w
                /\ w0' = step.w0
                /\ w_opt' = step.opts.w_opt
                /\ w0_opt' = step.opts.w0_opt
                /\ heap' = step.heap
                /\ calls' = step.calls
                /\ result' = Called("backward_pass", gradient,
                                    IF step.err # "" THEN Raise(step.err)
                                    ELSE InputGradient(gradient, ReturnWeights(w, step.w)))
       ELSE /\ result' = Called("backward_pass", gradient,
                                InputGradient(gradient, ReturnWeights(w, w)))
            /\ calls' = <<>>
            /\ UNCHANGED <<w, w0, w_opt, w0_opt, heap, n_backward>>
    /\ UNCHANGED <<cls, layer_input, input_shape, n_units, trainable, activation_func,
                   optimizer, fwd_x, input_dim>>

\* ------------------------------------------------------- class Activation
\* The registry: name -> activation function class
activation_functions ==
    [relu |-> "ReLU", sigmoid |-> "Sigmoid", softmax |-> "Softmax",
     leaky_relu |-> "LeakyReLU", tanh |-> "TanH"]

\* Mutant: an unknown name falls back to ReLU (a .get with a default)
Lookup_Default(name) ==
    IF name \in DOMAIN activation_functions
    THEN Return([type |-> activation_functions[name]])
    ELSE Return([type |-> "ReLU"])

\* activation_functions[name]
Lookup(name) ==
    IF name \in DOMAIN activation_functions
    THEN Return([type |-> activation_functions[name]])
    ELSE Raise("KeyError")

\* Activation(name)
Activation_init(name) ==
    /\ cls = "none"
    /\ LET found == Lookup(name)
       IN  IF found.outcome = "raise"
           THEN /\ result' = Called("Activation", PyStr(name), found)
                /\ UNCHANGED <<cls, activation_func, trainable>>
           ELSE /\ cls' = "Activation"
                /\ activation_func' = found.value
                /\ trainable' = PyBool(TRUE)
                /\ result' = Called("Activation", PyStr(name), Return(PyNone))
    /\ calls' = <<>>
    /\ UNCHANGED <<layer_input, input_shape, n_units, w, w0, w_opt, w0_opt, optimizer,
                   heap, fwd_x, n_backward, input_dim>>

\* self.activation_func(x) and self.activation_func.gradient(x): the activation
\* functions are pure functions of the array, kept as terms
Apply(func, x) == [type |-> "ndarray-term", func |-> func.type, method |-> "__call__", of |-> x]
Gradient(func, x) == [type |-> "ndarray-term", func |-> func.type, method |-> "gradient", of |-> x]

\* gradient * local: the elementwise product, defined when the shapes broadcast
Times(gradient, local) ==
    IF Broadcastable(Shape(gradient), Shape(local.of))
    THEN Return([type |-> "ndarray-term", method |-> "__mul__", left |-> gradient,
                 right |-> local])
    ELSE Raise("ValueError")

\* Mutant: only the first input is cached
Cache_First(old, x) == IF old = Unset THEN x ELSE old

\* self.layer_input = x
Cache(old, x) == x

Activation_forward_pass(x) ==
    /\ cls = "Activation"
    /\ layer_input' = Cache(layer_input, x)
    /\ fwd_x' = x
    /\ calls' = <<>>
    /\ result' = Called("forward_pass", x, Return(Apply(activation_func, x)))
    /\ UNCHANGED <<cls, input_shape, n_units, trainable, w, w0, w_opt, w0_opt,
                   activation_func, optimizer, heap, n_backward, input_dim>>

\* Mutant: a missing cached input is tolerated and the gradient passed through
LocalGradient_Lenient(gradient, func, input) ==
    IF input = Unset THEN Return(gradient)
    ELSE Times(gradient, Gradient(func, input))

\* return gradient * self.activation_func.gradient(self.layer_input)
LocalGradient(gradient, func, input) ==
    IF input = Unset THEN Raise("AttributeError")
    ELSE Times(gradient, Gradient(func, input))

Activation_backward_pass(gradient) ==
    /\ cls = "Activation"
    /\ result' = Called("backward_pass", gradient,
                        LocalGradient(gradient, activation_func, layer_input))
    /\ calls' = <<>>
    /\ UNCHANGED <<cls, attrs, optimizer, heap, fwd_x, n_backward, input_dim>>

Activation_output_shape ==
    /\ cls = "Activation"
    /\ calls' = <<>>
    /\ result' = Called("output_shape", PyNone,
                        IF input_shape = Unset THEN Raise("AttributeError")
                        ELSE Return(input_shape))
    /\ UNCHANGED <<cls, attrs, optimizer, heap, fwd_x, n_backward, input_dim>>

\* ------------------------------------------------------------------- Next
Next ==
    \/ Layer_init
    \/ \E shape \in Shapes : Layer_set_input_shape(shape)
    \/ Layer_output_shape
    \/ Layer_parameters
    \/ \E x \in Inputs : Layer_forward_pass(x)
    \/ \E gradient \in Gradients : Layer_backward_pass(gradient)
    \/ \E units \in Units, shape \in InputShapes : Dense_init(units, shape)
    \/ \E b \in BOOLEAN : SetTrainable(b)
    \/ \E seed \in Seeds : Dense_initialize(seed)
    \/ Dense_parameters
    \/ \E x \in Inputs : Dense_forward_pass(x)
    \/ \E gradient \in Gradients : Dense_backward_pass(gradient)
    \/ Dense_output_shape
    \/ \E name \in Names : Activation_init(name)
    \/ \E x \in Inputs : Activation_forward_pass(x)
    \/ \E gradient \in Gradients : Activation_backward_pass(gradient)
    \/ Activation_output_shape

Spec == Init /\ [][Next]_vars

\* ------------------------------------------------------------------ claims

\* C1: every backward_pass of an initialized Dense layer with trainable == False
\* that has run forward_pass leaves w and w0 (and both optimizer objects) exactly
\* as they were and makes no optimizer update call, however many calls came before.
C1_NonTrainableFrame ==
    [][\A g \in Gradients :
         (/\ cls = "Dense"
          /\ ~trainable.val
          /\ IsArr(w)
          /\ IsArr(layer_input)
          /\ Dense_backward_pass(g))
         => (/\ w' = w
             /\ w0' = w0
             /\ w_opt' = w_opt
             /\ w0_opt' = w0_opt
             /\ heap' = heap
             /\ calls' = <<>>)]_vars

\* C1 witness: a frozen layer whose weights were trained before has just run a
\* backward pass after a forward pass.
C1_Witness ==
    /\ cls = "Dense"
    /\ ~trainable.val
    /\ IsArr(w)
    /\ IsArr(layer_input)
    /\ n_backward >= 1
    /\ result.op = "backward_pass"
    /\ result.outcome = "return"

\* C2: a Dense backward_pass that returns hands back gradient . w_old^T, w_old being
\* the weight matrix on entry, whether the layer is trainable or not; the array has
\* shape (batch, input_dim), input_dim being the number of rows of w_old.
C2_ReturnsGradientTimesOldWeights ==
    [][\A g \in Gradients :
         (cls = "Dense" /\ Dense_backward_pass(g) /\ result'.outcome = "return")
         => (/\ result'.value = Dot(g, Transpose(w))
             /\ Shape(result'.value) = <<Rows(g), Rows(w)>>)]_vars

\* C2 witness: a trainable layer returned a gradient from a pass that changed w.
C2_Witness ==
    /\ cls = "Dense"
    /\ trainable.val
    /\ result.op = "backward_pass"
    /\ result.outcome = "return"
    /\ Len(calls) = 2
    /\ calls[1].value # w

\* C3: output_shape, forward_pass and backward_pass of the base Layer fail with a
\* "not implemented" error: the call never returns a value to the caller.
C3_AbstractMethodsRaise ==
    (cls = "Layer" /\ result.op \in {"output_shape", "forward_pass", "backward_pass"})
    => (result.outcome = "raise" /\ result.value.type = "NotImplementedError")

\* C4: Activation(name) with a name outside the five registry keys fails with a
\* lookup error during construction and leaves no Activation object to run a pass
\* on; with each of the five keys it succeeds and holds the matching function.
C4_ActivationLookup ==
    /\ cls = "Activation" =>
           activation_func.type \in {"ReLU", "Sigmoid", "Softmax", "LeakyReLU", "TanH"}
    /\ result.op = "Activation" =>
           LET name == result.arg.val
               matching == CASE name = "relu" -> "ReLU"
                             [] name = "sigmoid" -> "Sigmoid"
                             [] name = "softmax" -> "Softmax"
                             [] name = "leaky_relu" -> "LeakyReLU"
                             [] name = "tanh" -> "TanH"
                             [] OTHER -> ""
           IN  IF matching # ""
               THEN /\ result.outcome = "return"
                    /\ cls = "Activation"
                    /\ activation_func.type = matching
               ELSE /\ result.outcome = "raise"
                    /\ result.value.type = "KeyError"
                    /\ cls = "none"
                    /\ activation_func = Unset
                    /\ ~ENABLED (\E x \in Inputs : Activation_forward_pass(x))
                    /\ ~ENABLED (\E g \in Gradients : Activation_backward_pass(g))

\* C4 witness: a construction with an unknown name has just failed.
C4_Witness ==
    /\ result.op = "Activation"
    /\ result.arg.val = "not_a_real_name"
    /\ result.outcome = "raise"

\* C5: w_opt, w0_opt and the supplied optimizer share no mutable state: an update
\* call through one of them never changes what either of the other two shows.
C5_NoSharedOptimizerState ==
    \A i \in 1..Len(calls) :
        \A other \in {"w_opt", "w0_opt", "optimizer"} \ {calls[i].opt} :
            calls[i].after[other] = calls[i].before[other]

\* The shape relations of C6
ShapesAgree ==
    /\ cls = "Dense"
    /\ IsArr(w)
    /\ IsArr(w0)
    /\ input_shape.type = "tuple"
    /\ Rows(w) = input_shape.items[1]
    /\ Shape(w0) = <<1, n_units.val>>

\* Every update call of the latest backward_pass returned an array of the shape of
\* the parameter it was given
UpdatesKeepShape ==
    \A i \in 1..Len(calls) :
        calls[i].outcome = "return" => Shape(calls[i].result) = Shape(calls[i].value)

\* C6 as stated: in every state after initialize, whatever set_input_shape,
\* forward_pass and backward_pass calls followed, w.shape[0] == input_shape[0] and
\* w0.shape == (1, n_units); right after initialize w has shape
\* (input_shape[0], n_units) and w0 is all zeros.
C6_ShapeInvariant ==
    /\ (cls = "Dense" /\ IsArr(w)) => ShapesAgree
    /\ (cls = "Dense" /\ result.op = "initialize" /\ result.outcome = "return") =>
           (/\ Shape(w) = <<input_shape.items[1], n_units.val>>
            /\ w0 = Zeros(1, n_units.val))

\* C6 amended: initialize establishes the shapes (w of shape
\* (input_shape[0], n_units), w0 all zeros of shape (1, n_units)); from then on
\* w.shape[0] == input_shape[0] and w0.shape == (1, n_units) are kept by every call
\* that leaves input_shape[0] as it is (forward_pass, backward_pass with an
\* optimizer whose update returns an array of its parameter's shape, initialize,
\* set_input_shape with the same first dimension), and set_input_shape never
\* touches w or w0.
C6_ShapesKeptUnlessInputShapeChanges ==
    [][/\ ((\E seed \in Seeds : Dense_initialize(seed)) /\ result'.outcome = "return")
          => (/\ Shape(w') = <<input_shape.items[1], n_units.val>>
              /\ w0' = Zeros(1, n_units.val)
              /\ ShapesAgree')
       /\ (ShapesAgree /\ input_shape' = input_shape /\ UpdatesKeepShape')
          => ShapesAgree'
       /\ (\E shape \in Shapes : Layer_set_input_shape(shape))
          => (w' = w /\ w0' = w0)]_vars

\* C6 witness: the shapes agree after a backward pass that updated w and w0.
C6_Witness ==
    /\ ShapesAgree
    /\ result.op = "backward_pass"
    /\ result.outcome = "return"
    /\ Len(calls) = 2
    /\ calls[1].value # w

\* C7 as stated: backward_pass with no forward_pass before it ends in an error, for
\* an initialized Dense layer whatever trainable is, and for an Activation layer.
C7_BackwardBeforeForwardRaises ==
    [][\A g \in Gradients :
         (/\ fwd_x = Unset
          /\ \/ (cls = "Dense" /\ IsArr(w) /\ Dense_backward_pass(g))
             \/ (cls = "Activation" /\ Activation_backward_pass(g)))
         => result'.outcome = "raise"]_vars

\* C7 amended: with no forward_pass before it, backward_pass raises AttributeError
\* (and changes no field) for an initialized Dense layer with trainable == True and
\* for an Activation layer; an initialized Dense layer with trainable == False never
\* reads the cached input and returns gradient . w^T (given a gradient with n_units
\* columns; a dimension error otherwise).
C7_OnlyTrainableNeedsForward ==
    [][\A g \in Gradients :
         fwd_x = Unset =>
           /\ (cls = "Dense" /\ IsArr(w) /\ trainable.val /\ Dense_backward_pass(g))
              => (/\ result'.outcome = "raise"
                  /\ result'.value.type = "AttributeError"
                  /\ w' = w /\ w0' = w0 /\ calls' = <<>>)
           /\ (cls = "Activation" /\ Activation_backward_pass(g))
              => (/\ result'.outcome = "raise"
                  /\ result'.value.type = "AttributeError")
           /\ (cls = "Dense" /\ IsArr(w) /\ ~trainable.val /\ Dense_backward_pass(g))
              => IF Cols(g) = Cols(w)
                 THEN /\ result'.outcome = "return"
                      /\ result'.value = Dot(g, Transpose(w))
                 ELSE /\ result'.outcome = "raise"
                      /\ result'.value.type = "ValueError"]_vars

\* C7 witness: a frozen, initialized Dense layer that never ran forward_pass has
\* returned a gradient from backward_pass.
C7_Witness ==
    /\ cls = "Dense"
    /\ IsArr(w)
    /\ ~trainable.val
    /\ fwd_x = Unset
    /\ result.op = "backward_pass"
    /\ result.outcome = "return"

C9_UpdateCalls ==
    [][\A g \in Gradients :
         (/\ cls = "Dense"
          /\ trainable.val
          /\ Dense_backward_pass(g)
          /\ result'.outcome = "return")
         => (/\ Len(calls') = 2
             /\ calls'[1].opt = "w0_opt"
             /\ calls'[1].value = w
             /\ calls'[1].grad = Dot(Transpose(layer_input), g)
             /\ w' = calls'[1].result
             /\ calls'[2].opt = "w_opt"
             /\ calls'[2].value = w0
             /\ calls'[2].grad = SumAxis0(g)
             /\ w0' = calls'[2].result)]_vars

\* C9 witness: a trainable layer has completed its second updating backward pass.
C9_Witness ==
    /\ cls = "Dense"
    /\ trainable.val
    /\ result.op = "backward_pass"
    /\ result.outcome = "return"
    /\ n_backward = 2
    /\ Len(calls) = 2

\* C10: after one or more forward_pass calls, an Activation backward_pass(g) returns
\* the product of g and activation_func.gradient at the input of the most recent
\* forward_pass (when the shapes broadcast), leaves layer_input as it is, and so
\* returns the same result when repeated with the same g.
C10_GradientAtLatestInput ==
    [][\A g \in Gradients :
         (cls = "Activation" /\ fwd_x # Unset /\ Activation_backward_pass(g))
         => (/\ layer_input' = layer_input
             /\ IF Broadcastable(Shape(g), Shape(fwd_x))
                THEN /\ result'.outcome = "return"
                     /\ result'.value =
                            [type |-> "ndarray-term", method |-> "__mul__", left |-> g,
                             right |-> Gradient(activation_func, fwd_x)]
                ELSE result'.outcome = "raise"
             /\ (result.op = "backward_pass" /\ result.arg = g) => result' = result)]_vars

\* C10 witness: a backward pass has returned a product after a forward pass.
C10_Witness ==
    /\ cls = "Activation"
    /\ fwd_x # Unset
    /\ result.op = "backward_pass"
    /\ result.outcome = "return"

====
